---------------------------- MODULE Spec2Model ----------------------------
(***************************************************************************)
(* Receipt-text-to-transaction extraction of upi-expense-tracker.          *)
(*                                                                         *)
(* A text is a sequence of one-character strings.  Regular expressions of  *)
(* the source are translated to operators that compute what re.search      *)
(* computes (leftmost match, greedy / lazy quantifiers, lookahead).        *)
(* A Python value that may be None is a sequence of length 0 (None) or 1.  *)
(* A Python dict is a function whose DOMAIN is the set of keys present.    *)
(***************************************************************************)
EXTENDS Integers, Sequences, FiniteSets, TLC

VARIABLES
    text,      \* the text handed to the handlers (raw OCR output)
    budget,    \* calls still to be made
    call,      \* the last call: its handler and what its environment did
    result,    \* the value the last call returned
    invoked,   \* the functions the last call entered
    uploads,   \* files present under the upload folder
    history,   \* the handler and returned fields of every call so far
    conversation_history,  \* app.py's module-level list of chat messages
    chats      \* the chat requests being handled, each with its position

vars == <<text, budget, call, result, invoked, uploads, history,
          conversation_history, chats>>

(***************************************************************************)
(* Characters                                                              *)
(***************************************************************************)
Rupee == "₹"
NL == "\n"

DigitSeq == <<"0", "1", "2", "3", "4", "5", "6", "7", "8", "9">>
LowerSeq == <<"a", "b", "c", "d", "e", "f", "g", "h", "i", "j", "k", "l", "m",
              "n", "o", "p", "q", "r", "s", "t", "u", "v", "w", "x", "y", "z">>
UpperSeq == <<"A", "B", "C", "D", "E", "F", "G", "H", "I", "J", "K", "L", "M",
              "N", "O", "P", "Q", "R", "S", "T", "U", "V", "W", "X", "Y", "Z">>

Range(s) == {s[i] : i \in 1..Len(s)}

DigitSet == Range(DigitSeq)
LowerSet == Range(LowerSeq)
UpperSet == Range(UpperSeq)

IsDigit(c) == c \in DigitSet
IsAlpha(c) == c \in LowerSet \cup UpperSet
\* \w of Python's re on str: letters, digits and the underscore
IsWord(c) == IsAlpha(c) \/ IsDigit(c) \/ c = "_"
\* \s of Python's re, and the characters str.strip / str.split remove
IsSpace(c) == c \in {" ", NL, "\t"}
IsDigitOrComma(c) == IsDigit(c) \/ c = ","

DigitVal(c) == (CHOOSE i \in 1..10 : DigitSeq[i] = c) - 1

\* str.lower() and str.upper() on one character
LowerChar(c) == IF c \in UpperSet
                THEN LowerSeq[CHOOSE i \in 1..26 : UpperSeq[i] = c]
                ELSE c
UpperChar(c) == IF c \in LowerSet
                THEN UpperSeq[CHOOSE i \in 1..26 : LowerSeq[i] = c]
                ELSE c
Lower(s) == [i \in 1..Len(s) |-> LowerChar(s[i])]

Min(S) == CHOOSE x \in S : \A y \in S : x <= y

None == <<>>
Some(v) == <<v>>

\* `v or w` on optional values
OrElse(v, w) == IF v # None THEN v ELSE w

\* the first entry of ms, in the order of its indices, that is not None
FirstSome(ms) ==
    LET hits == {i \in DOMAIN ms : ms[i] # None}
    IN  IF hits = {} THEN None ELSE ms[Min(hits)]

\* s[i..j-1]
Slice(s, i, j) == SubSeq(s, i, j - 1)

\* the literal lit stands at position i of s
HasAt(s, i, lit) ==
    /\ i >= 1
    /\ i + Len(lit) - 1 <= Len(s)
    /\ \A k \in 1..Len(lit) : s[i + k - 1] = lit[k]

\* the same under re.IGNORECASE (lit is written in lower case)
HasAtI(s, i, lit) ==
    /\ i >= 1
    /\ i + Len(lit) - 1 <= Len(s)
    /\ \A k \in 1..Len(lit) : LowerChar(s[i + k - 1]) = lit[k]

\* `lit in s`
Contains(s, lit) == \E i \in 1..(Len(s) - Len(lit) + 1) : HasAt(s, i, lit)

\* end (exclusive) of the longest run of characters satisfying P from i on:
\* what a greedy P* consumes
RunEnd(s, i, P(_)) ==
    Min({j \in i..(Len(s) + 1) : j = Len(s) + 1 \/ ~P(s[j])})

\* str.strip()
Strip(s) ==
    LET keep == {i \in 1..Len(s) : ~IsSpace(s[i])}
    IN  IF keep = {} THEN <<>>
        ELSE SubSeq(s, Min(keep), CHOOSE x \in keep : \A y \in keep : y <= x)

(***************************************************************************)
(* Numbers: float(...) of a matched group, kept exact.  A value is its     *)
(* whole part as digits without leading zeros and two fractional digits.   *)
(***************************************************************************)
MinAmount == 1
MaxAmount == 500000

RECURSIVE StripZeros(_)
StripZeros(ds) == IF ds # <<>> /\ Head(ds) = "0" THEN StripZeros(Tail(ds)) ELSE ds

RECURSIVE IntOf(_)
IntOf(ds) == IF ds = <<>> THEN 0
             ELSE 10 * IntOf(SubSeq(ds, 1, Len(ds) - 1)) + DigitVal(ds[Len(ds)])

Dec(whole, frac) ==
    [int  |-> StripZeros(whole),
     frac |-> IF Len(frac) = 0 THEN <<"0", "0">>
              ELSE IF Len(frac) = 1 THEN <<frac[1], "0">>
              ELSE frac]

\* amount_str.replace(',', '')
RemoveCommas(g) == SelectSeq(g, LAMBDA c : c # ",")

\* float(amount_str): None stands for the ValueError of float('')
ParseFloat(g) ==
    LET str  == RemoveCommas(g)
        dots == {i \in 1..Len(str) : str[i] = "."}
        d    == IF dots = {} THEN Len(str) + 1 ELSE Min(dots)
        ip   == Slice(str, 1, d)
        fp   == Slice(str, d + 1, Len(str) + 1)
    IN  IF ip = <<>> /\ fp = <<>> THEN None ELSE Some(Dec(ip, fp))

\* the whole part fits a machine integer
Small(d) == Len(d.int) <= 9
DecGE(d, n) == ~Small(d) \/ IntOf(d.int) >= n
DecLE(d, n) == Small(d) /\ (\/ IntOf(d.int) < n
                            \/ IntOf(d.int) = n /\ d.frac = <<"0", "0">>)

\* 1 <= amount <= 500000
InRange(d) == DecGE(d, MinAmount) /\ DecLE(d, MaxAmount)

(***************************************************************************)
(* extract_amount_from_text (ocr_utils.py)                                 *)
(***************************************************************************)
\* (?:\.\d{lo,hi})? at k: the position after it
DecimalsEnd(s, k, lo, hi) ==
    LET run == RunEnd(s, k + 1, IsDigit) - (k + 1)
    IN  IF k <= Len(s) /\ s[k] = "." /\ run >= lo
        THEN k + 1 + (IF run > hi THEN hi ELSE run)
        ELSE k

\* [\d,]+(?:\.\d{1,2})? at j: the position after it, j when it does not match
NumberEnd(s, j) ==
    LET k == RunEnd(s, j, IsDigitOrComma)
    IN  IF k = j THEN j ELSE DecimalsEnd(s, k, 1, 2)

\* the group a match starting at j captures, None without a match
NumberGroup(s, j) ==
    LET e == NumberEnd(s, j) IN IF e > j THEN Some(Slice(s, j, e)) ELSE None

\* r'₹\s*([\d,]+(?:\.\d{1,2})?)' matched at i
RupeeAt(s, i) ==
    IF HasAt(s, i, <<Rupee>>)
    THEN NumberGroup(s, RunEnd(s, i + 1, IsSpace))
    ELSE None

\* r'INR\s*([\d,]+(?:\.\d{1,2})?)' matched at i
InrAt(s, i) ==
    IF HasAt(s, i, <<"I", "N", "R">>)
    THEN NumberGroup(s, RunEnd(s, i + 3, IsSpace))
    ELSE None

\* r'Amount\s*[:\-]?\s*₹?\s*([\d,]+)' matched at i
AmountLabelAt(s, i) ==
    IF HasAt(s, i, <<"A", "m", "o", "u", "n", "t">>)
    THEN LET a == RunEnd(s, i + 6, IsSpace)
             b == IF a <= Len(s) /\ s[a] \in {":", "-"} THEN a + 1 ELSE a
             c == RunEnd(s, b, IsSpace)
             d == IF c <= Len(s) /\ s[c] = Rupee THEN c + 1 ELSE c
             j == RunEnd(s, d, IsSpace)
             e == RunEnd(s, j, IsDigitOrComma)
         IN  IF e > j THEN Some(Slice(s, j, e)) ELSE None
    ELSE None

\* (?:,\d{3})+ at k: the position after it, k when it does not match
RECURSIVE CommaGroupsEnd(_, _)
CommaGroupsEnd(s, k) ==
    IF /\ k + 3 <= Len(s)
       /\ s[k] = ","
       /\ IsDigit(s[k + 1]) /\ IsDigit(s[k + 2]) /\ IsDigit(s[k + 3])
    THEN CommaGroupsEnd(s, k + 4)
    ELSE k

\* r'(\d{1,3}(?:,\d{3})+(?:\.\d{1,2})?)' matched at i: the one to three
\* digits must run up to the comma
CommaNumberAt(s, i) ==
    LET k == RunEnd(s, i, IsDigit)
        g == CommaGroupsEnd(s, k)
    IN  IF k - i >= 1 /\ k - i <= 3 /\ g > k
        THEN Some(Slice(s, i, DecimalsEnd(s, g, 1, 2)))
        ELSE None

\* \b at position i (between s[i-1] and s[i])
WordBoundary(s, i) ==
    LET before == i > 1 /\ i - 1 <= Len(s) /\ IsWord(s[i - 1])
        after  == i >= 1 /\ i <= Len(s) /\ IsWord(s[i])
    IN  before # after

\* r'\b(\d{4,6})\b' matched at i
BareNumberAt(s, i) ==
    LET k == RunEnd(s, i, IsDigit)
    IN  IF /\ i <= Len(s) /\ IsDigit(s[i])
           /\ WordBoundary(s, i)
           /\ k - i >= 4 /\ k - i <= 6
           /\ WordBoundary(s, k)
        THEN Some(Slice(s, i, k))
        ELSE None

NumAmountPatterns == 5

\* patterns[p] matched at i
AmountPatternAt(p, s, i) ==
    CASE p = 1 -> RupeeAt(s, i)
      [] p = 2 -> InrAt(s, i)
      [] p = 3 -> AmountLabelAt(s, i)
      [] p = 4 -> CommaNumberAt(s, i)
      [] p = 5 -> BareNumberAt(s, i)

\* re.search(patterns[p], text): group 1 of the leftmost match
AmountSearch(p, s) == FirstSome([i \in 1..Len(s) |-> AmountPatternAt(p, s, i)])

\* float(amount_str) of a match's group 1; None for no match and for the
\* ValueError the loop catches
ParseGroup(m) == IF m = None THEN None ELSE ParseFloat(m[1])

\* `if 1 <= amount <= 500000: return amount`
Accept(v) == IF v # None /\ InRange(v[1]) THEN v ELSE None

\* what the loop body yields for pattern p: the amount it returns, None
\* when the loop goes on (no match, ValueError, out of range)
AmountOfPattern(p, s) == Accept(ParseGroup(AmountSearch(p, s)))

RECURSIVE AmountFrom(_, _)
AmountFrom(p, s) ==
    IF p > NumAmountPatterns THEN None
    ELSE OrElse(AmountOfPattern(p, s), AmountFrom(p + 1, s))

\* the pattern list tried from the loosest pattern to the most specific
RECURSIVE AmountFromLoosest(_, _)
AmountFromLoosest(p, s) ==
    IF p < 1 THEN None
    ELSE OrElse(AmountOfPattern(p, s), AmountFromLoosest(p - 1, s))

extract_amount_loosest_first(s) == AmountFromLoosest(NumAmountPatterns, s)

extract_amount_from_text(s) == AmountFrom(1, s)

(***************************************************************************)
(* extract_merchant_info (ocr_utils.py)                                    *)
(***************************************************************************)
\* text.split('\n')
RECURSIVE SplitLines(_)
SplitLines(s) ==
    LET nls == {i \in 1..Len(s) : s[i] = NL}
    IN  IF nls = {} THEN <<s>>
        ELSE <<Slice(s, 1, Min(nls))>> \o SplitLines(Slice(s, Min(nls) + 1, Len(s) + 1))

\* sep.join(parts)
RECURSIVE Join(_, _)
Join(parts, sep) ==
    IF parts = <<>> THEN <<>>
    ELSE IF Len(parts) = 1 THEN parts[1]
    ELSE parts[1] \o sep \o Join(Tail(parts), sep)

MetaWords == {<<"u", "p", "i">>, <<"r", "e", "f">>, <<"t", "x", "n">>, <<"i", "d">>, <<"b", "a", "n", "k">>, <<"t", "r", "a", "n", "s", "a", "c", "t", "i", "o", "n">>}

\* re.search(r'\d{2}:\d{2}', line)
HasTimeToken(line) ==
    \E i \in 1..(Len(line) - 4) :
        /\ IsDigit(line[i]) /\ IsDigit(line[i + 1])
        /\ line[i + 2] = ":"
        /\ IsDigit(line[i + 3]) /\ IsDigit(line[i + 4])

LineKept(line) ==
    /\ ~ \E w \in MetaWords : Contains(Lower(line), w)
    /\ ~ HasTimeToken(line)

\* merchant_text
MerchantText(s) == Join(SelectSeq(SplitLines(s), LineKept), <<NL>>)

IsSpaceOrColon(c) == IsSpace(c) \/ c = ":"
\* [a-z\s&\.-] under re.IGNORECASE
IsNameChar(c) == IsAlpha(c) \/ IsSpace(c) \/ c \in {"&", ".", "-"}

\* \s+behalf or \s+\d after the word `on` at d, d2 being the position
\* after the whitespace that follows the word
OnTail(s, d, d2) ==
    /\ d2 > d + 2
    /\ \/ HasAtI(s, d2, <<"b", "e", "h", "a", "l", "f">>)
       \/ d2 <= Len(s) /\ IsDigit(s[d2])

\* the lookahead at e, d being the position after the whitespace at e
LookaheadFrom(s, e, d) ==
    \/ d <= Len(s) /\ IsDigit(s[d])
    \/ d > e /\ HasAtI(s, d, <<"o", "n">>) /\ OnTail(s, d, RunEnd(s, d + 2, IsSpace))
    \/ e <= Len(s) /\ s[e] = NL
    \/ e = Len(s) + 1
    \/ d > e /\ d <= Len(s) /\ s[d] \in {"*", "@"}

\* (?=\s*\d|\s+on\s+behalf|\s+on\s+\d|\n|$|\s+\*|\s+@) at e
NameLookahead(s, e) == LookaheadFrom(s, e, RunEnd(s, e, IsSpace))

\* ([a-z][a-z\s&\.-]+?)(?=...) at k: the lazily shortest capture
ShortestName(s, k) ==
    LET ends == {e \in (k + 2)..(Len(s) + 1) :
                    /\ \A x \in (k + 1)..(e - 1) : IsNameChar(s[x])
                    /\ NameLookahead(s, e)}
    IN  IF ends # {} THEN Some(Slice(s, k, Min(ends))) ELSE None

\* the capture after separators that run from j up to k
CaptureFrom(s, j, k) ==
    IF j <= Len(s) + 1 /\ k > j /\ k <= Len(s) /\ IsAlpha(s[k])
    THEN ShortestName(s, k)
    ELSE None

\* <separators>([a-z][a-z\s&\.-]+?)(?=...) at j, the separators being
\* [\s:]+ (colon) or \s+: the capture, None without a match
NameCapture(s, j, colon) ==
    CaptureFrom(s, j, RunEnd(s, j, LAMBDA c : IF colon THEN IsSpaceOrColon(c) ELSE IsSpace(c)))

PaidToWords == <<<<"p", "a", "i", "d", " ", "t", "o">>, <<"s", "e", "n", "t", " ", "t", "o">>, <<"f", "o", "r">>, <<"m", "e", "r", "c", "h", "a", "n", "t">>, <<"r", "e", "c", "i", "p", "i", "e", "n", "t">>,
                 <<"s", "h", "o", "p">>, <<"r", "e", "q", "u", "e", "s", "t", "e", "d", " ", "b", "y">>>>

\* the first alternative of words that, standing at i, lets the rest match
AlternativesAt(words, s, i, colon) ==
    FirstSome([a \in 1..Len(words) |->
                  IF HasAtI(s, i, words[a])
                  THEN NameCapture(s, i + Len(words[a]), colon)
                  ELSE None])

\* merchant_patterns[0] matched at i
PaidToAt(s, i) == AlternativesAt(PaidToWords, s, i, TRUE)

\* merchant_patterns[1] matched at i: received\s+(?:from|by)[\s:]+...
ReceivedAt(s, i) ==
    LET j == RunEnd(s, i + 8, IsSpace)
    IN  IF HasAtI(s, i, <<"r", "e", "c", "e", "i", "v", "e", "d">>) /\ j > i + 8
        THEN AlternativesAt(<<<<"f", "r", "o", "m">>, <<"b", "y">>>>, s, j, TRUE)
        ELSE None

\* merchant_patterns[2] matched at i: to\s+...
ToAt(s, i) == AlternativesAt(<<<<"t", "o">>>>, s, i, FALSE)

NumMerchantPatterns == 3

MerchantPatternAt(p, s, i) ==
    CASE p = 1 -> PaidToAt(s, i)
      [] p = 2 -> ReceivedAt(s, i)
      [] p = 3 -> ToAt(s, i)

\* re.search(pattern, merchant_text, re.IGNORECASE): group 1
MerchantSearch(p, s) == FirstSome([i \in 1..Len(s) |-> MerchantPatternAt(p, s, i)])

\* str.split(): the maximal runs of non-whitespace
RECURSIVE Words(_)
Words(s) ==
    LET t == Strip(s)
        e == RunEnd(t, 1, LAMBDA c : ~IsSpace(c))
    IN  IF t = <<>> THEN <<>>
        ELSE <<Slice(t, 1, e)>> \o Words(Slice(t, e, Len(t) + 1))

\* word.capitalize()
Capitalize(w) ==
    [i \in 1..Len(w) |-> IF i = 1 THEN UpperChar(w[i]) ELSE LowerChar(w[i])]

\* re.sub(r'[^\w\s&\.-]', ' ', merchant)
BlankOthers(s) ==
    [i \in 1..Len(s) |->
        IF IsWord(s[i]) \/ IsSpace(s[i]) \/ s[i] \in {"&", ".", "-"} THEN s[i] ELSE " "]

MapSeq(f(_), s) == [i \in 1..Len(s) |-> f(s[i])]

\* the clean-up of a captured name
CleanMerchant(g) ==
    Join(MapSeq(Capitalize, Words(Strip(BlankOthers(Strip(g))))), <<" ">>)

\* what the loop body assigns to merchant for a match, None without a match
CleanMatch(m) == IF m = None THEN None ELSE Some(CleanMerchant(m[1]))

\* the name each pattern gives on the text
PatternNames(s) == [p \in 1..NumMerchantPatterns |-> CleanMatch(MerchantSearch(p, s))]

\* the pattern loop from pattern p on, cur being the variable merchant
\* (None, or the last name assigned to it): it breaks on a name longer than
\* one character
RECURSIVE MerchantLoop(_, _, _)
MerchantLoop(p, names, cur) ==
    IF p > NumMerchantPatterns THEN cur
    ELSE IF names[p] = None THEN MerchantLoop(p + 1, names, cur)
    ELSE IF Len(names[p][1]) > 1 THEN names[p]
    ELSE MerchantLoop(p + 1, names, names[p])

CommonMerchants ==
    <<[key |-> <<"s", "p", "o", "t", "i", "f", "y">>,    value |-> <<"S", "p", "o", "t", "i", "f", "y">>],
      [key |-> <<"b", "i", "l", "l", "d", "e", "s", "k">>,   value |-> <<"B", "i", "l", "l", "D", "e", "s", "k">>],
      [key |-> <<"z", "o", "m", "a", "t", "o">>,     value |-> <<"Z", "o", "m", "a", "t", "o">>],
      [key |-> <<"s", "w", "i", "g", "g", "y">>,     value |-> <<"S", "w", "i", "g", "g", "y">>],
      [key |-> <<"a", "m", "a", "z", "o", "n">>,     value |-> <<"A", "m", "a", "z", "o", "n">>],
      [key |-> <<"f", "l", "i", "p", "k", "a", "r", "t">>,   value |-> <<"F", "l", "i", "p", "k", "a", "r", "t">>],
      [key |-> <<"b", "i", "g", "b", "a", "s", "k", "e", "t">>,  value |-> <<"B", "i", "g", "B", "a", "s", "k", "e", "t">>],
      [key |-> <<"u", "b", "e", "r">>,       value |-> <<"U", "b", "e", "r">>],
      [key |-> <<"o", "l", "a">>,        value |-> <<"O", "l", "a">>],
      [key |-> <<"i", "r", "c", "t", "c">>,      value |-> <<"I", "R", "C", "T", "C">>],
      [key |-> <<"b", "o", "o", "k", "m", "y", "s", "h", "o", "w">>, value |-> <<"B", "o", "o", "k", "M", "y", "S", "h", "o", "w">>]>>

\* where lit first stands in s, 0 when it does not
FirstAt(s, lit) ==
    LET at == {i \in 1..Len(s) : HasAt(s, i, lit)}
    IN  IF at = {} THEN 0 ELSE Min(at)

\* the key that stands first in the text
EarliestKey(low, hits) ==
    CHOOSE i \in hits :
        \A j \in hits : FirstAt(low, CommonMerchants[i].key) <= FirstAt(low, CommonMerchants[j].key)

\* the dictionary loop taking the hit that comes first in the text
DictionaryMerchantTextOrder(s) ==
    LET low  == Lower(s)
        hits == {i \in 1..Len(CommonMerchants) : Contains(low, CommonMerchants[i].key)}
    IN  IF hits = {} THEN None ELSE Some(CommonMerchants[EarliestKey(low, hits)].value)

\* the dictionary loop: the value of the first key, in the dict's order,
\* found in text.lower()
DictionaryMerchant(s) ==
    LET low  == Lower(s)
        hits == {i \in 1..Len(CommonMerchants) : Contains(low, CommonMerchants[i].key)}
    IN  IF hits = {} THEN None ELSE Some(CommonMerchants[Min(hits)].value)

\* Python truthiness of the variable merchant
Truthy(m) == m # None /\ m[1] # <<>>

ContainsAny(s, lits) == \E l \in lits : Contains(s, l)

\* the if / elif chain over merchant.lower()
CategoryOfMerchant(m) ==
    LET low == Lower(m)
    IN  IF ContainsAny(low, {<<"s", "p", "o", "t", "i", "f", "y">>, <<"n", "e", "t", "f", "l", "i", "x">>, <<"p", "r", "i", "m", "e">>, <<"h", "o", "t", "s", "t", "a", "r">>})
        THEN "Entertainment"
        ELSE IF ContainsAny(low, {<<"z", "o", "m", "a", "t", "o">>, <<"s", "w", "i", "g", "g", "y">>, <<"f", "o", "o", "d">>, <<"r", "e", "s", "t", "a", "u", "r", "a", "n", "t">>,
                                  <<"c", "a", "f", "e">>, <<"d", "i", "n", "i", "n", "g">>})
        THEN "Food & Dining"
        ELSE IF ContainsAny(low, {<<"a", "m", "a", "z", "o", "n">>, <<"f", "l", "i", "p", "k", "a", "r", "t">>, <<"m", "y", "n", "t", "r", "a">>, <<"a", "j", "i", "o">>})
        THEN "Shopping"
        ELSE IF ContainsAny(low, {<<"u", "b", "e", "r">>, <<"o", "l", "a">>, <<"r", "a", "p", "i", "d", "o">>})
        THEN "Transport"
        ELSE IF ContainsAny(low, {<<"b", "i", "l", "l", "d", "e", "s", "k">>, <<"p", "h", "o", "n", "e", "p", "e">>, <<"p", "a", "y", "t", "m">>, <<"g", "o", "o", "g", "l", "e", " ", "p", "a", "y">>})
        THEN "Bills & Utilities"
        ELSE "Other"

Unknown == <<"U", "n", "k", "n", "o", "w", "n">>

\* the variable merchant after the pattern loop and the dictionary loop
\* `if not merchant:` the dictionary loop runs
OrDictionary(merchant, s) == IF Truthy(merchant) THEN merchant ELSE DictionaryMerchant(s)

ResolvedMerchant(s) == OrDictionary(MerchantLoop(1, PatternNames(MerchantText(s)), None), s)

\* the category chain and the returned dict
MerchantInfo(merchant) ==
    [merchant |-> IF Truthy(merchant) THEN merchant[1] ELSE Unknown,
     category |-> IF Truthy(merchant) THEN CategoryOfMerchant(merchant[1])
                  ELSE "Other"]

extract_merchant_info(s) == MerchantInfo(ResolvedMerchant(s))

\* re.search(r'(\d{1,2}[/-]\d{1,2}[/-]\d{2,4})', text) matched at i
DatePartEnd(s, i) ==
    IF i + 2 <= Len(s) /\ IsDigit(s[i]) /\ IsDigit(s[i + 1]) /\ s[i + 2] \in {"/", "-"}
    THEN i + 3
    ELSE IF i + 1 <= Len(s) /\ IsDigit(s[i]) /\ s[i + 1] \in {"/", "-"}
    THEN i + 2
    ELSE 0

DateAt(s, i) ==
    LET a   == DatePartEnd(s, i)
        b   == DatePartEnd(s, a)
        run == RunEnd(s, b, IsDigit) - b
    IN  IF a > 0 /\ b > 0 /\ run >= 2
        THEN Some(Slice(s, i, b + (IF run > 4 THEN 4 ELSE run)))
        ELSE None

\* the date the orchestrator extracts
extract_date(s) ==
    LET hits == {i \in 1..Len(s) : DateAt(s, i) # None}
    IN  IF hits = {} THEN None ELSE DateAt(s, Min(hits))

(***************************************************************************)
(* parse_upi_transaction (ocr_utils.py)                                    *)
(***************************************************************************)
\* what the module-level groq_client and analyze_with_groq can do on a call:
\* no client, the completion call raises (caught in analyze_with_groq, which
\* returns None), an empty answer, an analysis text
GroqOutcomes == {"unconfigured", "raises", "empty", "analysis"}

\* where an exception can be raised inside the orchestrator's try block:
\* at the entry of extract_amount_from_text (lines 165-166, before its own
\* try), inside that function's try, in extract_merchant_info, in the date
\* search
Faults == {"none", "amount_entry", "amount_body", "merchant", "date"}

\* the blank test without text.strip(): `not text` alone
IsEmptyText(s) == s = <<>>

\* `not text or not text.strip()`
IsBlank(s) == Strip(s) = <<>>

\* the dict of the except branch (it has no 'date' key)
ErrorTransaction ==
    [amount   |-> None,
     merchant |-> Some(Unknown),
     category |-> Some("Other"),
     status   |-> "error",
     error    |-> "Error parsing transaction"]

\* the dict returned for blank text
BlankTransaction ==
    [amount   |-> None,
     merchant |-> Some(Unknown),
     category |-> Some("Other"),
     date     |-> None,
     status   |-> "error",
     error    |-> "No text content to analyze"]

\* the dict of the normal return, before the analysis is attached
Transaction(amount, info, date) ==
    [amount   |-> amount,
     merchant |-> Some(info.merchant),
     category |-> Some(info.category),
     date     |-> date,
     status   |-> "success"]

RegexTransaction(s, fault) ==
    Transaction(IF fault = "amount_body" THEN None ELSE extract_amount_from_text(s),
                extract_merchant_info(s),
                extract_date(s))

WithAnalysis(t) ==
    [k \in DOMAIN t \cup {"analysis"} |-> IF k = "analysis" THEN "analysis" ELSE t[k]]

\* `if groq_analysis: transaction['analysis'] = groq_analysis`
Attach(groq, t) == IF groq = "analysis" THEN WithAnalysis(t) ELSE t

\* parse_upi_transaction without its try / except: an exception that leaves
\* an extractor leaves the function
parse_upi_transaction_uncaught(s, groq, fault) ==
    IF IsBlank(s) THEN BlankTransaction
    ELSE IF fault \in {"amount_entry", "merchant", "date"} THEN [exception |-> fault]
    ELSE Attach(groq, RegexTransaction(s, fault))

\* parse_upi_transaction with analyze_with_groq letting its exception out:
\* a failed completion becomes the error record
parse_upi_transaction_ai_propagates(s, groq, fault) ==
    IF IsBlank(s) THEN BlankTransaction
    ELSE IF fault \in {"amount_entry", "merchant", "date"} \/ groq = "raises"
    THEN ErrorTransaction
    ELSE Attach(groq, RegexTransaction(s, fault))

parse_upi_transaction(s, groq, fault) ==
    IF IsBlank(s) THEN BlankTransaction
    ELSE IF fault \in {"amount_entry", "merchant", "date"} THEN ErrorTransaction
    ELSE Attach(groq, RegexTransaction(s, fault))

\* the functions the call enters: extractors in the order of the body, each
\* reached only if nothing before it raised out of the try block
ParseInvokes(s, groq, fault) ==
    IF IsBlank(s) THEN {}
    ELSE {"extract_amount_from_text"}
         \cup (IF fault # "amount_entry" THEN {"extract_merchant_info"} ELSE {})
         \cup (IF fault \notin {"amount_entry", "merchant"} THEN {"extract_date"} ELSE {})
         \cup (IF fault \in {"none", "amount_body"} /\ groq # "unconfigured"
               THEN {"analyze_with_groq"} ELSE {})

(***************************************************************************)
(* parse_receipt_text, parse_receipt_with_groq, upload_receipt (app.py)    *)
(***************************************************************************)
\* \d+(?:\.\d{2})? at j: the group, None without a match
PlainNumberGroup(s, j) ==
    LET k == RunEnd(s, j, IsDigit)
    IN  IF j <= Len(s) + 1 /\ k > j THEN Some(Slice(s, j, DecimalsEnd(s, k, 2, 2)))
        ELSE None

\* <label>[:\s]*₹?\s*(\d+(?:\.\d{2})?) at i, under re.IGNORECASE
LabelledAt(s, i, label) ==
    IF HasAtI(s, i, label)
    THEN LET a == RunEnd(s, i + Len(label), IsSpaceOrColon)
             b == IF a <= Len(s) /\ s[a] = Rupee THEN a + 1 ELSE a
         IN  PlainNumberGroup(s, RunEnd(s, b, IsSpace))
    ELSE None

\* amount_patterns[p-1] matched at i
AppAmountPatternAt(p, s, i) ==
    CASE p = 1 -> IF HasAt(s, i, <<Rupee>>)
                  THEN PlainNumberGroup(s, RunEnd(s, i + 1, IsSpace))
                  ELSE None
      [] p = 2 -> IF HasAtI(s, i, <<"r", "s">>)
                  THEN LET a == IF i + 2 <= Len(s) /\ s[i + 2] = "." THEN i + 3 ELSE i + 2
                       IN  PlainNumberGroup(s, RunEnd(s, a, IsSpace))
                  ELSE None
      [] p = 3 -> LabelledAt(s, i, <<"t", "o", "t", "a", "l">>)
      [] p = 4 -> LabelledAt(s, i, <<"a", "m", "o", "u", "n", "t">>)
      [] p = 5 -> LET k == RunEnd(s, i, IsDigit)
                  IN  IF k > i /\ DecimalsEnd(s, k, 2, 2) > k
                      THEN Some(Slice(s, i, k + 3))
                      ELSE None

NumAppAmountPatterns == 5

AppAmountSearch(p, s) == FirstSome([i \in 1..Len(s) |-> AppAmountPatternAt(p, s, i)])

\* group 1 of the first pattern that matches
RECURSIVE AppAmountMatch(_, _)
AppAmountMatch(p, s) ==
    IF p > NumAppAmountPatterns THEN None
    ELSE OrElse(AppAmountSearch(p, s), AppAmountMatch(p + 1, s))

\* the amount loop: the first pattern that matches decides, with no range check
AppAmountFrom(p, s) == ParseGroup(AppAmountMatch(p, s))

MerchantMinLen == 3
MerchantMaxLen == 50
MerchantLines == 3

Prefix(s, n) == SubSeq(s, 1, IF Len(s) < n THEN Len(s) ELSE n)

\* re.match(r'^\d+[\.\-\s]*$', line)
IsNumberLine(line) ==
    LET k == RunEnd(line, 1, IsDigit)
    IN  /\ k > 1
        /\ \A x \in k..Len(line) : line[x] \in {".", "-"} \/ IsSpace(line[x])

\* the first of the first three non-blank stripped lines that is longer than
\* three characters and not a number line, cut to 50 characters
AppMerchant(s) ==
    LET stripped == MapSeq(Strip, SplitLines(s))
        lines    == Prefix(SelectSeq(stripped, LAMBDA l : l # <<>>), MerchantLines)
        good     == {i \in 1..Len(lines) :
                        Len(lines[i]) > MerchantMinLen /\ ~IsNumberLine(lines[i])}
    IN  IF good = {} THEN Unknown ELSE Prefix(lines[Min(good)], MerchantMaxLen)

\* the if / elif chain over text.lower()
AppCategory(s) ==
    LET low == Lower(s)
    IN  IF ContainsAny(low, {<<"r", "e", "s", "t", "a", "u", "r", "a", "n", "t">>, <<"c", "a", "f", "e">>, <<"f", "o", "o", "d">>, <<"d", "i", "n", "i", "n", "g">>, <<"h", "o", "t", "e", "l">>,
                             <<"z", "o", "m", "a", "t", "o">>, <<"s", "w", "i", "g", "g", "y">>})
        THEN "Food & Dining"
        ELSE IF ContainsAny(low, {<<"u", "b", "e", "r">>, <<"o", "l", "a">>, <<"t", "a", "x", "i">>, <<"m", "e", "t", "r", "o">>, <<"b", "u", "s">>,
                                  <<"t", "r", "a", "n", "s", "p", "o", "r", "t">>})
        THEN "Transport"
        ELSE IF ContainsAny(low, {<<"m", "a", "l", "l">>, <<"s", "t", "o", "r", "e">>, <<"s", "h", "o", "p">>, <<"a", "m", "a", "z", "o", "n">>, <<"f", "l", "i", "p", "k", "a", "r", "t">>})
        THEN "Shopping"
        ELSE IF ContainsAny(low, {<<"e", "l", "e", "c", "t", "r", "i", "c">>, <<"w", "a", "t", "e", "r">>, <<"g", "a", "s">>, <<"b", "i", "l", "l">>, <<"u", "t", "i", "l", "i", "t", "y">>})
        THEN "Bills & Utilities"
        ELSE IF ContainsAny(low, {<<"m", "o", "v", "i", "e">>, <<"c", "i", "n", "e", "m", "a">>, <<"g", "a", "m", "e">>, <<"e", "n", "t", "e", "r", "t", "a", "i", "n", "m", "e", "n", "t">>})
        THEN "Entertainment"
        ELSE "Other"

parse_receipt_text(s) ==
    [amount   |-> AppAmountFrom(1, s),
     merchant |-> Some(AppMerchant(s)),
     category |-> Some(AppCategory(s)),
     date     |-> None]

\* dict.get(key, default)
Get(d, key, default) == IF key \in DOMAIN d THEN d[key] ELSE default

\* JSON objects the completion may answer with: any subset of the keys, any
\* value (a number, a string or null) under each
AIObjects ==
    { <<>>,
      [amount |-> Some(Dec(<<"4", "5", "0">>, <<>>))],
      [merchant |-> Some(<<"Z", "o", "m", "a", "t", "o">>)],
      [category |-> Some("Groceries")],
      [amount |-> Some(Dec(<<"0">>, <<>>)), merchant |-> None, category |-> None,
       date |-> None],
      [amount |-> Some(Dec(<<"4", "5", "0">>, <<>>)), merchant |-> Some(<<"Z", "o", "m", "a", "t", "o">>),
       category |-> Some("Food & Dining"), date |-> Some(<<"2", "0", "2", "3", "-", "0", "5", "-", "1", "2">>)],
      [amount |-> Some(Dec(<<"9", "9", "9", "9", "9", "9">>, <<>>)), merchant |-> Some(<<"Z", "o", "m", "a", "t", "o">>),
       category |-> Some("Food")] }

\* what client.chat.completions.create and the JSON search can yield
GroqReplies ==
    {[kind |-> "raises"], [kind |-> "no_json"], [kind |-> "bad_json"]}
    \cup {[kind |-> "object", obj |-> o] : o \in AIObjects}

\* parsed_data of parse_receipt_with_groq: the object, None on any exception
parse_receipt_with_groq(reply) ==
    IF reply.kind = "object" THEN Some(reply.obj) ELSE None

\* the request: no file part, an empty filename, a refused extension, a file
UploadRequests == {"no_file", "empty_name", "bad_type", "ok"}

\* where the handler's try block can raise: in file.save, after the save
UploadFaults == {"none", "save", "after_save"}

RawTextMax == 500

\* extract_text_from_image returns text.strip()
OcrText(s) == Strip(s)

\* `if not parsed_data: parsed_data = parse_receipt_text(raw_text)`
OrRegex(ai, s) == IF ai = None \/ DOMAIN ai[1] = {} THEN parse_receipt_text(s) ELSE ai[1]

\* parsed_data after the fallback decision
ParsedData(s, reply) == OrRegex(parse_receipt_with_groq(reply), s)

\* final_data built from parsed_data
FinalOf(parsed, s) ==
    [amount   |-> Get(parsed, "amount", None),
     merchant |-> Get(parsed, "merchant", Some(Unknown)),
     category |-> Get(parsed, "category", Some("Other")),
     date     |-> Get(parsed, "date", None),
     raw_text |-> Prefix(s, RawTextMax)]

FinalData(s, reply) == FinalOf(ParsedData(s, reply), s)

\* the response of upload_receipt for the OCR output s
upload_receipt(s, reply, request, fault) ==
    IF request = "no_file" THEN [code |-> 400, error |-> "No file part"]
    ELSE IF request = "empty_name" THEN [code |-> 400, error |-> "No selected file"]
    ELSE IF request = "bad_type"
    THEN [code |-> 400, success |-> FALSE, error |-> "File type not allowed"]
    ELSE IF fault # "none"
    THEN [code |-> 500, success |-> FALSE, error |-> "exception"]
    ELSE IF OcrText(s) = <<>>
    THEN [code |-> 400, success |-> FALSE, error |-> "Could not extract text from image"]
    ELSE [code |-> 200, success |-> TRUE, extracted_data |-> FinalData(OcrText(s), reply)]

\* the files left under the upload folder when the handler returns: the
\* saved file is removed after parsing and in the except branch, not on the
\* return for empty OCR text
UploadLeaves(s, request, fault) ==
    IF request = "ok" /\ fault = "none" /\ OcrText(s) = <<>> THEN {"receipt"} ELSE {}

\* whether the fallback parse_receipt_text ran
UploadInvokes(s, reply, request, fault) ==
    IF request # "ok" \/ fault = "save" THEN {}
    ELSE IF fault = "after_save" THEN {"file.save"}
    ELSE IF OcrText(s) = <<>> THEN {"file.save", "extract_text_from_image"}
    ELSE {"file.save", "extract_text_from_image", "parse_receipt_with_groq"}
         \cup (IF parse_receipt_with_groq(reply) = None
                  \/ DOMAIN parse_receipt_with_groq(reply)[1] = {}
               THEN {"parse_receipt_text"} ELSE {})

(***************************************************************************)
(* Inputs                                                                  *)
(***************************************************************************)
MaxFrags == 2
MaxAmountFrags == 3
MaxCalls == 2
MaxMerchantFrags == 3
MaxChats == 3

\* pieces of receipt text
Vocabulary ==
    { <<" ">>,
      <<NL>>,
      <<Rupee, "4", "5", "0">>,
      <<Rupee, "0">>,
      <<"p", "a", "i", "d", " ", "t", "o", " ", "z", "o", "m", "a", "t", "o">>,
      <<"t", "o", " ", "r", "a", "m", "e", "s", "h">>,
      <<"b", "u", "s">>,
      <<"u", "b", "e", "r">>,
      <<"h", "e", "l", "l", "o", " ", "w", "o", "r", "l", "d">>,
      <<"1", "2", "/", "0", "5", "/", "2", "0", "2", "3">> }

AmountVocabulary ==
    { <<" ">>,
      <<Rupee>>,
      <<Rupee, "4", "5", "0">>,
      <<Rupee, "0">>,
      <<"4", "5", "0">>,
      <<"5", "0", "0", "0">>,
      <<"6", "0", "0", "0", "0", "0">>,
      <<"1", "2", ",", "3", "4", ",", "5", "6", "7">>,
      <<"1", ",", "2", "3", "4">>,
      <<"0", ".", "5", "0", "0", "0">>,
      <<".", "5", "0">>,
      <<"I", "N", "R", " ">>,
      <<"A", "m", "o", "u", "n", "t", ":", " ">>,
      <<",">> }

RepeatVocabulary ==
    { <<" ">>,
      <<Rupee, "4", "5", "0">>,
      <<"p", "a", "i", "d", " ", "t", "o", " ", "z", "o", "m", "a", "t", "o">>,
      <<"b", "u", "s">>,
      <<"1", "2", "/", "0", "5", "/", "2", "0", "2", "3">> }

\* pieces of payment lines: names, dictionary merchants, a reference marker
MerchantVocabulary ==
    { <<" ">>,
      <<NL>>,
      <<"u", "b", "e", "r">>,
      <<"Z", "o", "m", "a", "t", "o">>,
      <<"r", "e", "f", " ">>,
      <<"P", "a", "i", "d", " ", "t", "o", " ">>,
      <<"s", "e", "n", "t", " ", "t", "o", " ">>,
      <<"r", "a", "m", "e", "s", "h", " ", "s", "t", "o", "r", "e", "s">>,
      <<" ", "5", "0", "0">>,
      <<"t", "o", " ", "a">> }

\* the concatenations of at most n pieces of vocab
RECURSIVE TextsUpTo(_, _)
TextsUpTo(vocab, n) ==
    IF n = 0 THEN {<<>>}
    ELSE LET shorter == TextsUpTo(vocab, n - 1)
         IN  shorter \cup {t \o f : t \in shorter, f \in vocab}

(***************************************************************************)
(* The state machine: a text arrives, handlers are called on it            *)
(***************************************************************************)
\* the fields the callers read from a returned value
Fields(r) == [k \in DOMAIN r \cap {"amount", "merchant", "category", "date", "status"}
                 |-> r[k]]

\* the same for the response of upload_receipt
UploadFields(r) ==
    IF r.code = 200
    THEN [amount   |-> r.extracted_data.amount,
          merchant |-> r.extracted_data.merchant,
          category |-> r.extracted_data.category,
          date     |-> r.extracted_data.date,
          status   |-> "success"]
    ELSE [status |-> "error"]

\* the one message conversation_history is created with
SystemMessage ==
    [role |-> "system", content |-> "You are a helpful expense tracking assistant."]

InitOn(texts, calls) ==
    /\ text \in texts
    /\ budget = calls
    /\ call = [op |-> "none"]
    /\ result = None
    /\ invoked = {}
    /\ uploads = {}
    /\ history = <<>>
    /\ conversation_history = <<SystemMessage>>
    /\ chats = {}

\* the environments of a call of parse_upi_transaction: an exception that
\* leaves the try block is raised before the completion is asked
ParseEnvs(groqs, faults) ==
    {[groq |-> g, fault |-> f] : g \in groqs, f \in faults \cap {"none", "amount_body"}}
    \cup {[fault |-> f] : f \in faults \ {"none", "amount_body"}}

\* the environments of a call of upload_receipt: the completion is asked
\* only for a saved file, when nothing raised
UploadEnvs(requests, faults) ==
    {[request |-> r] : r \in requests \ {"ok"}}
    \cup {[request |-> r, fault |-> f] : r \in requests \cap {"ok"}, f \in faults \ {"none"}}
    \cup {[request |-> r, fault |-> f, reply |-> y] :
             r \in requests \cap {"ok"}, f \in faults \cap {"none"}, y \in GroqReplies}

Called(c, fields) ==
    /\ budget' = budget - 1
    /\ call' = c
    /\ history' = Append(history, [op |-> c.op, fields |-> fields])
    /\ UNCHANGED <<text, conversation_history, chats>>

ParseUpiTransactionWith(groqs, faults) ==
    /\ budget > 0
    /\ \E env \in ParseEnvs(groqs, faults) :
        LET groq == Get(env, "groq", "unconfigured")
        IN  /\ result' = parse_upi_transaction(text, groq, env.fault)
            /\ invoked' = ParseInvokes(text, groq, env.fault)
            /\ Called([op |-> "parse_upi_transaction", env |-> env], Fields(result'))
            /\ UNCHANGED uploads

UploadReceiptWith(requests, faults) ==
    /\ budget > 0
    /\ \E env \in UploadEnvs(requests, faults) :
        LET fault == Get(env, "fault", "none")
            reply == Get(env, "reply", [kind |-> "raises"])
        IN  /\ result' = upload_receipt(text, reply, env.request, fault)
            /\ invoked' = UploadInvokes(text, reply, env.request, fault)
            /\ uploads' = uploads \cup UploadLeaves(text, env.request, fault)
            /\ Called([op |-> "upload_receipt", env |-> env], UploadFields(result'))

ParseUpiTransaction == ParseUpiTransactionWith(GroqOutcomes, Faults)

UploadReceipt == UploadReceiptWith(UploadRequests, UploadFaults)

ExtractAmountFromText ==
    /\ budget > 0
    /\ result' = extract_amount_from_text(text)
    /\ invoked' = {}
    /\ Called([op |-> "extract_amount_from_text"], [amount |-> result'])
    /\ UNCHANGED uploads

ExtractMerchantInfo ==
    /\ budget > 0
    /\ result' = extract_merchant_info(text)
    /\ invoked' = {}
    /\ Called([op |-> "extract_merchant_info"],
              [merchant |-> Some(result'.merchant), category |-> Some(result'.category)])
    /\ UNCHANGED uploads

\* what a chat request may say
ChatMessages == {"how much did I spend", "add 450 for food"}

\* what client.chat.completions.create does: it answers, or it raises
ChatOutcomes == {"reply", "raises"}

\* chat, up to the completion call: the user message is appended to the
\* shared list before anything else happens.  The server handles requests
\* on concurrent threads, so other requests may run between the steps.
ChatAppendUser ==
    /\ budget > 0
    /\ \E m \in ChatMessages :
          conversation_history' = Append(conversation_history, [role |-> "user", content |-> m])
    /\ chats' = chats \cup {[at |-> Len(conversation_history) + 1, pc |-> "appended", sent |-> 0]}
    /\ budget' = budget - 1
    /\ UNCHANGED <<text, call, result, invoked, uploads, history>>

\* chat: the completion is called with the list as it stands (sent: the
\* position of its last message)
ChatCreate ==
    \E r \in chats :
        /\ r.pc = "appended"
        /\ chats' = (chats \ {r})
                    \cup {[at |-> r.at, pc |-> "called", sent |-> Len(conversation_history)]}
        /\ UNCHANGED <<text, budget, call, result, invoked, uploads, history,
                       conversation_history>>

\* the response of chat for an outcome of the completion
ChatResponse(outcome) ==
    IF outcome = "reply" THEN [code |-> 200, response |-> "reply"]
    ELSE [code |-> 500, error |-> "exception"]

\* chat, from the return of the completion call on: the reply is appended
\* and returned; an exception is answered with 500 and appends nothing
ChatReturn ==
    \E r \in chats, outcome \in ChatOutcomes :
        /\ r.pc = "called"
        /\ chats' = chats \ {r}
        /\ conversation_history' =
              IF outcome = "reply"
              THEN Append(conversation_history,
                          [role |-> "assistant", content |-> "reply", after |-> r.sent])
              ELSE conversation_history
        /\ result' = ChatResponse(outcome)
        /\ call' = [op |-> "chat", env |-> [outcome |-> outcome, at |-> r.at]]
        /\ history' = Append(history, [op |-> "chat", fields |-> [code |-> result'.code]])
        /\ UNCHANGED <<text, budget, invoked, uploads>>

Init == InitOn(TextsUpTo(Vocabulary, MaxFrags), 1)

Next == ParseUpiTransaction \/ UploadReceipt

Spec == Init /\ [][Next]_vars

\* the amount extractor alone, on texts made of number-like pieces
InitAmount == InitOn(TextsUpTo(AmountVocabulary, MaxAmountFrags), 1)

NextAmount == ExtractAmountFromText

SpecAmount == InitAmount /\ [][NextAmount]_vars

\* repeated calls on one text, with whatever the completion answers each time
InitRepeat == InitOn(TextsUpTo(RepeatVocabulary, 1), MaxCalls)

ParseUpiTransactionAgain == ParseUpiTransactionWith(GroqOutcomes, {"none"})

UploadReceiptAgain == UploadReceiptWith({"ok"}, {"none"})

NextRepeat == ParseUpiTransactionAgain \/ UploadReceiptAgain

SpecRepeat == InitRepeat /\ [][NextRepeat]_vars

\* the merchant / category classifier alone, on payment lines
InitMerchant == InitOn(TextsUpTo(MerchantVocabulary, MaxMerchantFrags), 1)

NextMerchant == ExtractMerchantInfo

SpecMerchant == InitMerchant /\ [][NextMerchant]_vars

\* the chat endpoint alone: requests arrive and are handled concurrently
InitChat == InitOn({<<>>}, MaxChats)

NextChat == ChatAppendUser \/ ChatCreate \/ ChatReturn

SpecChat == InitChat /\ [][NextChat]_vars

(***************************************************************************)
(* Properties                                                              *)
(***************************************************************************)
Categories ==
    {"Food & Dining", "Transport", "Shopping", "Bills & Utilities", "Entertainment",
     "Other"}

\* a whole number of rupees
Amt(digits) == Dec(digits, <<>>)

\* the text holds nothing but whitespace
OnlyWhitespace(s) == \A i \in 1..Len(s) : s[i] \in {" ", NL, "\t"}

ByParse == call.op = "parse_upi_transaction"
ByUpload == call.op = "upload_receipt"
ByExtractAmount == call.op = "extract_amount_from_text"

HelloWorld == <<"h", "e", "l", "l", "o", " ", "w", "o", "r", "l", "d">>

\* the Transaction fields of the last call
Last == history[Len(history)].fields

\* the last call of upload_receipt parsed a saved file with nothing raised
UploadParsed ==
    /\ ByUpload
    /\ call.env.request = "ok"
    /\ Get(call.env, "fault", "none") = "none"
    /\ ~OnlyWhitespace(text)

\* the completion of the last upload failed: it raised, or its answer held
\* no JSON or malformed JSON
UploadAIFailed == UploadParsed /\ call.env.reply.kind \in {"raises", "no_json", "bad_json"}

\* the completion of the last upload answered with a JSON object
UploadAIObject == UploadParsed /\ call.env.reply.kind = "object"

----------------------------------------------------------------------------
\* C1 as claimed: parse_upi_transaction returns a Transaction, and a fault
\* raised inside amount extraction, merchant/category extraction, date
\* extraction or the AI call ends in a record with status 'error' and a message.
C1_AsClaimed ==
    (/\ ByParse
     /\ ~OnlyWhitespace(text)
     /\ \/ call.env.fault # "none"
        \/ Get(call.env, "groq", "unconfigured") = "raises")
    => (result.status = "error" /\ "error" \in DOMAIN result)

\* C1 amended: every call of parse_upi_transaction returns a Transaction
\* (amount, merchant, category and status, status being success or error, an
\* error message exactly with status error).  On non-blank text a fault that
\* leaves an extractor (the entry of amount extraction, merchant/category
\* extraction, date extraction) ends in status 'error'; a fault caught inside
\* amount extraction or inside the AI call is absorbed: status 'success'.
C1_ReturnsTransaction ==
    ByParse =>
        /\ {"amount", "merchant", "category", "status"} \subseteq DOMAIN result
        /\ result.status \in {"success", "error"}
        /\ ("error" \in DOMAIN result) <=> (result.status = "error")
        /\ (~OnlyWhitespace(text) /\ call.env.fault \in {"amount_entry", "merchant", "date"})
           => result.status = "error"
        /\ (~OnlyWhitespace(text) /\ call.env.fault \in {"none", "amount_body"})
           => result.status = "success"

\* C1 witness: a fault in merchant extraction on non-blank text came back as
\* an error record
C1_Witness ==
    /\ ByParse
    /\ ~OnlyWhitespace(text)
    /\ call.env.fault = "merchant"
    /\ result.status = "error"
    /\ "error" \in DOMAIN result

----------------------------------------------------------------------------
\* C2: for empty or whitespace-only text parse_upi_transaction returns status
\* 'error' with a message, amount None, merchant 'Unknown', category 'Other',
\* date None, and enters no extractor and no AI call.
C2_BlankIsError ==
    (ByParse /\ OnlyWhitespace(text)) =>
        /\ result.status = "error"
        /\ "error" \in DOMAIN result
        /\ result.amount = None
        /\ result.merchant = Some(Unknown)
        /\ result.category = Some("Other")
        /\ "date" \in DOMAIN result /\ result.date = None
        /\ invoked = {}

\* C2 witness: a call on a non-empty text of whitespace only returned the error
C2_Witness ==
    /\ ByParse
    /\ text # <<>>
    /\ OnlyWhitespace(text)
    /\ result.status = "error"
    /\ invoked = {}

----------------------------------------------------------------------------
\* the record r carries the merchant and the category of info
SameInfo(r, info) ==
    /\ r.merchant = Some(info.merchant)
    /\ r.category = Some(info.category)

\* the records a and b agree on the four extracted fields
SameFields(a, b) == \A f \in {"amount", "merchant", "category", "date"} : a[f] = b[f]

\* C3: for non-blank text and every AI outcome the parser returns status
\* 'success' with the regex-derived amount, merchant, category and date; an
\* AI failure is not propagated, and no amount / an 'Unknown' merchant
\* ('hello world') is still a success.
C3_FallbackSucceeds ==
    /\ (ByParse /\ ~OnlyWhitespace(text) /\ call.env.fault = "none") =>
          /\ result.status = "success"
          /\ "error" \notin DOMAIN result
          /\ result.amount = extract_amount_from_text(text)
          /\ SameInfo(result, extract_merchant_info(text))
          /\ result.date = extract_date(text)
    /\ (ByParse /\ call.env.fault = "none" /\ text = HelloWorld) =>
          /\ result.status = "success"
          /\ result.amount = None
          /\ result.merchant = Some(Unknown)
          /\ result.category = Some("Other")
          /\ result.date = None
    /\ UploadAIFailed =>
          /\ result.code = 200 /\ result.success
          /\ SameFields(result.extracted_data, parse_receipt_text(OcrText(text)))

\* C3 witness: the completion raised on 'hello world' and the call returned
\* success with no amount and merchant 'Unknown'
C3_Witness ==
    /\ ByParse
    /\ text = HelloWorld
    /\ call.env.fault = "none"
    /\ call.env.groq = "raises"
    /\ result.status = "success"
    /\ result.amount = None
    /\ result.merchant = Some(Unknown)

----------------------------------------------------------------------------
\* the regex-derived value of field f on the upload path
FallbackField(f) == parse_receipt_text(OcrText(text))[f]

\* the AI object holds field f with a value other than null
Holds(obj, f) == f \in DOMAIN obj /\ obj[f] # None

\* C4 as claimed: an AI object is adopted only if it holds an amount or a
\* merchant, each field it leaves out is then filled with the regex
\* extractors' value; an object with neither gives the regex fallback result.
C4_AsClaimed ==
    UploadAIObject =>
        LET obj == call.env.reply.obj
        IN  \A f \in {"amount", "merchant", "category", "date"} :
                Last[f] = IF (Holds(obj, "amount") \/ Holds(obj, "merchant")) /\ Holds(obj, f)
                          THEN obj[f]
                          ELSE FallbackField(f)

----------------------------------------------------------------------------
\* C5 as claimed: in every Transaction produced, on the AI-assisted path and
\* on the regex fallback path, amount is None or a number within [1, 500000].
C5_AsClaimed ==
    (history # <<>> /\ "amount" \in DOMAIN Last) =>
        (Last.amount = None \/ InRange(Last.amount[1]))

----------------------------------------------------------------------------
\* C6 as claimed: in every Transaction with status 'success', category is one
\* of the six categories, never null and never another string.
C6_AsClaimed ==
    (history # <<>> /\ "category" \in DOMAIN Last /\ Last.status = "success") =>
        Last.category \in {Some(c) : c \in Categories}

----------------------------------------------------------------------------
\* the positions of the rupee signs that are followed, after optional
\* whitespace, by a digit or a comma
RupeeNumbers(s) ==
    {i \in 1..Len(s) :
        /\ s[i] = Rupee
        /\ LET j == RunEnd(s, i + 1, IsSpace) IN j <= Len(s) /\ IsDigitOrComma(s[j])}

\* the number after the rupee sign at i, read with at most two decimals;
\* None when it holds no digit
RupeeValue(s, i) == ParseFloat(NumberGroup(s, RunEnd(s, i + 1, IsSpace))[1])

\* the values within [1, 500000] that the text gives with a rupee sign
RupeeAmounts(s) ==
    {RupeeValue(s, i) : i \in {k \in RupeeNumbers(s) :
                                  RupeeValue(s, k) # None /\ InRange(RupeeValue(s, k)[1])}}

\* C7 as claimed: a text containing a rupee-prefixed amount within
\* [1, 500000] yields that amount, whatever looser numbers or other
\* rupee-prefixed tokens stand earlier or later in the text.
C7_AsClaimed ==
    (ByExtractAmount /\ RupeeAmounts(text) # {}) => result \in RupeeAmounts(text)

\* C7 amended: when the first rupee-prefixed number of the text has a value
\* within [1, 500000], extract_amount_from_text returns that value, whatever
\* numbers match the looser patterns earlier or later in the text.
C7_FirstRupeeNumberWins ==
    (ByExtractAmount /\ RupeeNumbers(text) # {}) =>
        LET v == RupeeValue(text, Min(RupeeNumbers(text)))
        IN  (v # None /\ InRange(v[1])) => result = v

\* C7 witness: a bare four-digit number, which the last pattern matches,
\* stands before the rupee amount, and the rupee amount was returned
C7_Witness ==
    /\ ByExtractAmount
    /\ text = <<"5", "0", "0", "0", Rupee, "4", "5", "0">>
    /\ result = Some(Amt(<<"4", "5", "0">>))

----------------------------------------------------------------------------
IsNumberChar(c) == IsDigit(c) \/ c \in {",", "."}

\* the numeric tokens of a text: the maximal runs of digits, commas and dots
\* that hold a digit, as <<first, last>>
NumericTokens(s) ==
    {tk \in (1..Len(s)) \X (1..Len(s)) :
        /\ tk[1] <= tk[2]
        /\ \A x \in tk[1]..tk[2] : IsNumberChar(s[x])
        /\ \E x \in tk[1]..tk[2] : IsDigit(s[x])
        /\ tk[1] = 1 \/ ~IsNumberChar(s[tk[1] - 1])
        /\ tk[2] = Len(s) \/ ~IsNumberChar(s[tk[2] + 1])}

\* a number: digits with optional thousands separators and an optional
\* decimal part
WellFormedNumber(tok) ==
    LET dots == {i \in 1..Len(tok) : tok[i] = "."}
    IN  /\ IsDigit(tok[1]) /\ IsDigit(tok[Len(tok)])
        /\ Cardinality(dots) <= 1
        /\ \A i \in 1..Len(tok) : tok[i] = "," => \A d \in dots : i < d

\* the value of the number lies below 1 or above 500000
OutsideRange(tok) ==
    LET str   == RemoveCommas(tok)
        dots  == {i \in 1..Len(str) : str[i] = "."}
        d     == IF dots = {} THEN Len(str) + 1 ELSE Min(dots)
        whole == StripZeros(Slice(str, 1, d))
        frac  == Slice(str, d + 1, Len(str) + 1)
    IN  \/ whole = <<>>
        \/ Len(whole) > 6
        \/ Len(whole) = 6 /\ IntOf(whole) > MaxAmount
        \/ Len(whole) = 6 /\ IntOf(whole) = MaxAmount /\ \E i \in 1..Len(frac) : frac[i] # "0"

\* C8 as claimed: when the only numeric token of the text has a value outside
\* [1, 500000], extract_amount_from_text returns None: no looser pattern
\* takes an in-range amount from a fragment of that token.
C8_AsClaimed ==
    (/\ ByExtractAmount
     /\ Cardinality(NumericTokens(text)) = 1
     /\ \A tk \in NumericTokens(text) :
            /\ WellFormedNumber(SubSeq(text, tk[1], tk[2]))
            /\ OutsideRange(SubSeq(text, tk[1], tk[2])))
    => result = None

----------------------------------------------------------------------------
\* C9 as claimed: in every result merchant 'Unknown' implies category
\* 'Other': no category is derived without a resolved merchant.  Stated of
\* the results the repository's own categorization produced (the regex
\* tier of either handler), which is where the claim places it.
C9_AsClaimed ==
    (/\ ByParse \/ UploadAIFailed
     /\ "merchant" \in DOMAIN Last
     /\ Last.merchant = Some(Unknown))
    => Last.category = Some("Other")

----------------------------------------------------------------------------
\* C10 as claimed: the fields of a parse call are a function of the text
\* alone: two calls of a handler on the same text return the same amount,
\* merchant, category, date and status, whatever the AI answers each time.
C10_AsClaimed ==
    \A i, j \in 1..Len(history) :
        history[i].op = history[j].op => history[i].fields = history[j].fields

----------------------------------------------------------------------------
ByExtractMerchant == call.op = "extract_merchant_info"

\* no merchant pattern matches the filtered text
NoPatternMatched(s) ==
    \A p \in 1..NumMerchantPatterns : MerchantSearch(p, MerchantText(s)) = None

\* the dictionary entries whose key occurs, in any case, in the whole text
KeysIn(s) == {i \in 1..Len(CommonMerchants) : Contains(Lower(s), CommonMerchants[i].key)}

Uber == <<"u", "b", "e", "r">>

\* C11: when no merchant pattern matched, extract_merchant_info returns the
\* value of the first dictionary entry, in the dictionary's order, whose key
\* occurs case-insensitively in the unfiltered text, and 'Unknown' when no
\* key occurs; the text 'uber' gives merchant 'Uber', category 'Transport'.
C11_DictionaryFallback ==
    /\ (ByExtractMerchant /\ NoPatternMatched(text)) =>
          result.merchant = IF KeysIn(text) = {} THEN Unknown
                            ELSE CommonMerchants[Min(KeysIn(text))].value
    /\ (ByExtractMerchant /\ text = Uber) =>
          result = [merchant |-> <<"U", "b", "e", "r">>, category |-> "Transport"]

\* C11 witness: 'uber' stands before 'Zomato' on a line that the filter drops
\* ('ref'), no pattern matched, and the entry first in the dictionary's
\* order, Zomato, was returned
C11_Witness ==
    /\ ByExtractMerchant
    /\ text = <<"r", "e", "f", " ", "u", "b", "e", "r">> \o <<"Z", "o", "m", "a", "t", "o">>
    /\ NoPatternMatched(text)
    /\ result.merchant = <<"Z", "o", "m", "a", "t", "o">>

----------------------------------------------------------------------------
\* names of alphabetic words that are no dictionary merchant
PlainNames == {<<"r", "a", "m", "e", "s", "h", " ", "s", "t", "o", "r", "e", "s">>}

\* the single line 'Paid to <name>' followed by a digit; it holds no
\* reference / transaction-id / bank marker and no HH:MM token
PaidToLine(name) == <<"P", "a", "i", "d", " ", "t", "o", " ">> \o name \o <<" ", "5", "0", "0">>

\* C12 as claimed: for the single line 'Paid to <name> 500' the line survives
\* the filter, the first pattern matches, and extract_merchant_info returns
\* <name> with each word title-cased.
C12_AsClaimed ==
    \A name \in PlainNames :
        (ByExtractMerchant /\ text = PaidToLine(name)) =>
            result.merchant = CleanMerchant(name)

----------------------------------------------------------------------------
\* C13 as claimed: a pattern-derived name of fewer than 2 characters is
\* discarded, resolution going on to the dictionary and then to 'Unknown':
\* extract_merchant_info never returns a merchant of length below 2.
C13_AsClaimed ==
    ByExtractMerchant => Len(result.merchant) >= 2

----------------------------------------------------------------------------
\* C14 as claimed: every value parse_upi_transaction returns (blank input,
\* normal success, caught internal fault) holds the keys amount, merchant,
\* category, date and status, and holds 'error' exactly when status is 'error'.
C14_AsClaimed ==
    ByParse =>
        /\ {"amount", "merchant", "category", "date", "status"} \subseteq DOMAIN result
        /\ ("error" \in DOMAIN result) <=> (result.status = "error")

----------------------------------------------------------------------------
\* C15 as claimed: once upload_receipt has saved the uploaded file, every
\* path on which it returns a response (no OCR text, AI parse, regex
\* fallback, caught exception) has removed the file: no file is left under
\* the upload folder when the handler has returned.
C15_AsClaimed ==
    (ByUpload /\ call.env.request = "ok") => uploads = {}

----------------------------------------------------------------------------
\* C16 as claimed: when every chat request has been answered,
\* conversation_history is the system message followed by strictly
\* alternating user and assistant messages, each assistant message replying
\* to the user message immediately before it.
C16_AsClaimed ==
    chats = {} =>
        /\ conversation_history[1] = SystemMessage
        /\ \A i \in 2..Len(conversation_history) :
              /\ conversation_history[i].role = (IF i % 2 = 0 THEN "user" ELSE "assistant")
              /\ conversation_history[i].role = "assistant" =>
                    conversation_history[i].after = i - 1

=============================================================================
